---- MODULE Spec2Model ----
(***************************************************************************)
(* WindowTiler (src/WindowTiler.py): a Tk front end that tiles the windows *)
(* of an application on a monitor (Sort) or places one window per tile of  *)
(* a user-defined grid (layers).  The model keeps the object's fields, the *)
(* selection state of its comboboxes and spinners, and the state of the    *)
(* two collaborators: the monitors and the windows of the desktop.         *)
(*                                                                         *)
(* Text is modelled as a tuple of one-character strings, so that lower()   *)
(* and the substring test are computed.  Indices are 0-based as in the     *)
(* source; a Python list l is a sequence and l[i] is l[i + 1].             *)
(***************************************************************************)
EXTENDS Integers, Sequences, FiniteSets, TLC

VARIABLES
    monitors,        \* self.monitors
    app_titles,      \* self.app_titles
    target_windows,  \* self.target_windows (window handles)
    layers,          \* self.layers
    layer_counter,   \* self.layer_counter
    monitor_cbx,     \* self.monitor_cbx: [values, text]
    app_cbx,         \* self.app_cbx: [values, text]
    status_lbl,      \* self.status_lbl
    desktop,         \* the windows gw.getAllWindows() gave the last handler
    os_windows,      \* the same windows when that handler returned
    calls,           \* the calls that handler made on windows and on its
                     \* list of matching windows, in order
    dialogs,         \* the messagebox calls that handler made
    op               \* that handler, with its local variables

vars == <<monitors, app_titles, target_windows, layers, layer_counter,
          monitor_cbx, app_cbx, status_lbl, desktop, os_windows,
          calls, dialogs, op>>

progVars == <<monitors, app_titles, target_windows, layers, layer_counter,
              monitor_cbx, app_cbx, status_lbl>>

----------------------------------------------------------------------------
(* Bounds and pools of the model *)

\* windows of the desktop in the grid family of initial states
MaxWin == 7
\* windows of the desktop in the matching family of initial states
MaxMatchWin == 3
\* layers created in one run, at most
MaxLayerCounter == 2
\* tiles of all layers together in the event-driven specification, at most
MaxTotalTiles == 2

\* Program constants
horizontal_gap == 1
vertical_gap == 1
SpinnerFrom == 1
SpinnerTo == 5

Min(a, b) == IF a < b THEN a ELSE b
Max(a, b) == IF a > b THEN a ELSE b

----------------------------------------------------------------------------
(* Text *)

\* str.lower() on one character of the model's alphabet
LowerChar(c) ==
    CASE c = "A" -> "a"
      [] c = "B" -> "b"
      [] OTHER -> c

\* str.lower()
lower(s) == [i \in DOMAIN s |-> LowerChar(s[i])]

\* Python's  needle in hay  on str
In(needle, hay) ==
    \E k \in 0..(Len(hay) - Len(needle)) :
        SubSeq(hay, k + 1, k + Len(needle)) = needle

\* the placeholder entry of a tile's combobox
SelectApplication == <<"Select application...">>

\* str(k) as its decimal digits
RECURSIVE Digits(_)
Digits(k) == IF k < 10 THEN <<k>> ELSE Append(Digits(k \div 10), k % 10)

\* Python's  a < b  on str, for texts given as sequences of character codes
RECURSIVE StrLess(_, _)
StrLess(a, b) ==
    IF b = <<>> THEN FALSE
    ELSE IF a = <<>> THEN TRUE
    ELSE IF Head(a) # Head(b) THEN Head(a) < Head(b)
    ELSE StrLess(Tail(a), Tail(b))

----------------------------------------------------------------------------
(* Comboboxes *)

NoLabel == [n |-> 0, width |-> 0, height |-> 0, x |-> 0, y |-> 0]

\* f"Monitor {i+1}: {m.width}x{m.height} @({m.x},{m.y})" for each monitor
MonitorLabels(mons) ==
    [i \in 1..Len(mons) |->
        [n |-> i, width |-> mons[i].width, height |-> mons[i].height,
         x |-> mons[i].x, y |-> mons[i].y]]

\* ttk.Combobox.current(): index of the text among the values, or -1
current(cbx) ==
    IF \E i \in 1..Len(cbx.values) : cbx.values[i] = cbx.text
    THEN (CHOOSE i \in 1..Len(cbx.values) :
            /\ cbx.values[i] = cbx.text
            /\ \A j \in 1..(i - 1) : cbx.values[j] # cbx.text) - 1
    ELSE -1

\* ttk.Combobox.current(i)
SetCurrent(cbx, i) == [cbx EXCEPT !.text = cbx.values[i + 1]]

----------------------------------------------------------------------------
(* The window collaborator: resizeTo, moveTo, activate, restore *)

Methods == {"restore", "resizeTo", "moveTo", "activate"}

\* One method call on the window with handle hwnd.  st carries the windows,
\* the calls made so far and the calls that raise (st.faults, pairs
\* <<handle, method>>).  A call that raises changes nothing; the others
\* take effect.
Call(st, hwnd, fn, a, b) ==
    LET ok == <<hwnd, fn>> \notin st.faults
        upd(w) ==
            IF w.hwnd # hwnd \/ ~ok THEN w
            ELSE CASE fn = "restore" -> [w EXCEPT !.isMinimized = FALSE]
                   [] fn = "resizeTo" -> [w EXCEPT !.width = a, !.height = b]
                   [] fn = "moveTo" -> [w EXCEPT !.left = a, !.top = b]
                   [] OTHER -> w
    IN  [st EXCEPT
            !.wins = [k \in DOMAIN st.wins |-> upd(st.wins[k])],
            !.calls = Append(st.calls,
                [fn |-> fn, hwnd |-> hwnd, a |-> a, b |-> b, ok |-> ok])]

Raised(st) == ~st.calls[Len(st.calls)].ok

\* list.append(w) on the handler's list of matching windows
Collect(st, hwnd) ==
    [st EXCEPT
        !.windows = Append(@, hwnd),
        !.calls = Append(@, [fn |-> "append", hwnd |-> hwnd, a |-> 0,
                             b |-> 0, ok |-> TRUE])]

\* RestoreIfMinimized that leaves a minimized window alone
NoRestore(st, w) == st

\* if w.isMinimized: try: w.restore() except Exception: pass
RestoreIfMinimized(st, w) ==
    IF w.isMinimized THEN Call(st, w.hwnd, "restore", 0, 0) ELSE st

\* try: resizeTo; moveTo; activate; sleep  except Exception: print
\* (the first call that raises ends the try block)
Place(st, hwnd, cell) ==
    LET s0 == [st EXCEPT !.cells = Append(@, [hwnd |-> hwnd] @@ cell)]
        s1 == Call(s0, hwnd, "resizeTo", cell.w, cell.h)
        s2 == Call(s1, hwnd, "moveTo", cell.x, cell.y)
        s3 == Call(s2, hwnd, "activate", 0, 0)
    IN  IF Raised(s1) THEN s1
        ELSE IF Raised(s2) THEN s2
        ELSE s3

MessageBox(kind, title) == [kind |-> kind, title |-> title]

\* _update_status: the four counts written to the status label
StatusText(mons, titles, targets, ls) ==
    [text |-> "counts", monitors |-> Len(mons), titles |-> Len(titles),
     matched |-> Len(targets), layers |-> Len(ls)]

----------------------------------------------------------------------------
(* sort() *)

\* GridDimensions without the special case for four windows
GridDimensionsNoQuadrants(n) ==
    LET cols == Min(3, n)
    IN  [cols |-> cols, rows |-> (n + cols - 1) \div cols]

\* grid dimensions for n matched windows
GridDimensions(n) ==
    IF n = 4
    THEN [cols |-> 2, rows |-> 2]
    ELSE LET cols == Min(3, n)
         IN  [cols |-> cols, rows |-> (n + cols - 1) \div cols]

\* SortCell with the windows stepped by their own size, not by the cell's
SortCellNoGap(mon, rows, cols, i) ==
    LET win_w == (mon.width \div cols) - horizontal_gap
        win_h == (mon.height \div rows) - vertical_gap
        r == i \div cols
        c == i % cols
    IN  [row |-> r, col |-> c,
         x |-> mon.x + c * win_w, y |-> mon.y + r * win_h,
         w |-> win_w, h |-> win_h]

\* the rectangle of the i-th target window
SortCell(mon, rows, cols, i) ==
    LET base_win_w == mon.width \div cols
        base_win_h == mon.height \div rows
        win_w == base_win_w - horizontal_gap
        win_h == base_win_h - vertical_gap
        r == i \div cols
        c == i % cols
    IN  [row |-> r, col |-> c,
         x |-> mon.x + c * base_win_w + (horizontal_gap \div 2),
         y |-> mon.y + r * base_win_h + (vertical_gap \div 2),
         w |-> win_w, h |-> win_h]

\* SortMatches on the title as it is spelled
SortMatchesCaseSensitive(app_text, w) == In(app_text, w.title)

\* the test that selects a window in sort()
SortMatches(app_text, w) == In(app_text, lower(w.title))

\* the loop over gw.getAllWindows(): restore and collect the matching windows
RECURSIVE SortCollect(_, _, _)
SortCollect(st, app_text, k) ==
    IF k > Len(st.wins) THEN st
    ELSE LET w == st.wins[k]
         IN  IF SortMatches(app_text, w)
             THEN SortCollect(Collect(RestoreIfMinimized(st, w), w.hwnd),
                              app_text, k + 1)
             ELSE SortCollect(st, app_text, k + 1)

\* SortTile that gives up at the first call that raises
RECURSIVE SortTileUntilRaised(_, _, _, _, _)
SortTileUntilRaised(st, mon, rows, cols, i) ==
    IF i >= Len(st.windows) THEN st
    ELSE LET s1 == Place(st, st.windows[i + 1], SortCell(mon, rows, cols, i))
         IN  IF Raised(s1) THEN s1
             ELSE SortTileUntilRaised(s1, mon, rows, cols, i + 1)

\* the loop over enumerate(self.target_windows)
RECURSIVE SortTile(_, _, _, _, _)
SortTile(st, mon, rows, cols, i) ==
    IF i >= Len(st.windows) THEN st
    ELSE SortTile(Place(st, st.windows[i + 1], SortCell(mon, rows, cols, i)),
                  mon, rows, cols, i + 1)

\* what a handler starts from on a desktop showing the windows wins, where
\* the calls in faults raise
Start(wins, faults) ==
    [wins |-> wins, faults |-> faults, calls |-> <<>>, windows |-> <<>>,
     positioned |-> <<>>, cells |-> <<>>]

\* a handler that returns before it enumerates the windows
ReturnEarly(handler, box) ==
    /\ dialogs' = <<box>>
    /\ calls' = <<>>
    /\ desktop' = <<>>
    /\ os_windows' = <<>>
    /\ op' = handler
    /\ UNCHANGED progVars

\* a handler that ends in  mon = self.monitors[mon_idx]  raising IndexError:
\* no dialog, no window touched
RaiseIndexError(handler) ==
    /\ dialogs' = <<>>
    /\ calls' = <<>>
    /\ desktop' = <<>>
    /\ os_windows' = <<>>
    /\ op' = handler
    /\ UNCHANGED progVars

\* sort() on a desktop showing the windows wins, where the calls in faults
\* raise
sort(wins, faults) ==
    IF monitors = <<>> \/ app_titles = <<>>
    THEN ReturnEarly([name |-> "sort", ret |-> "no_detect"],
                     MessageBox("showerror", "Error"))
    ELSE
    LET mon_idx == current(monitor_cbx)
        app_idx == current(app_cbx)
    IN
    IF mon_idx = -1 \/ app_idx = -1
    THEN ReturnEarly([name |-> "sort", ret |-> "no_selection"],
                     MessageBox("showerror", "Error"))
    ELSE IF mon_idx >= Len(monitors)
    THEN RaiseIndexError([name |-> "sort", ret |-> "IndexError",
                          mon_idx |-> mon_idx])
    ELSE
    LET mon == monitors[mon_idx + 1]
        app_text == lower(app_titles[app_idx + 1])
        s1 == SortCollect(Start(wins, faults), app_text, 1)
        n == Len(s1.windows)
        grid == GridDimensions(n)
        s2 == SortTile(s1, mon, grid.rows, grid.cols, 0)
    IN
    /\ desktop' = wins
    /\ target_windows' = s1.windows
    /\ status_lbl' = StatusText(monitors, app_titles, s1.windows, layers)
    /\ UNCHANGED <<monitors, app_titles, layers, layer_counter,
                   monitor_cbx, app_cbx>>
    /\ IF n = 0
       THEN /\ dialogs' = <<MessageBox("showinfo", "Nothing to do")>>
            /\ calls' = s1.calls
            /\ os_windows' = s1.wins
            /\ op' = [name |-> "sort", ret |-> "nothing_to_do",
                      mon_idx |-> mon_idx, app_idx |-> app_idx, n |-> 0]
       ELSE /\ dialogs' = <<MessageBox("showinfo", "Done")>>
            /\ calls' = s2.calls
            /\ os_windows' = s2.wins
            /\ op' = [name |-> "sort", ret |-> "done",
                      mon_idx |-> mon_idx, app_idx |-> app_idx, n |-> n,
                      rows |-> grid.rows, cols |-> grid.cols,
                      cells |-> s2.cells]

----------------------------------------------------------------------------
(* Layers *)

LayerIndex(id) == CHOOSE k \in 1..Len(layers) : layers[k].id = id

\* the sort key of _reorder_layers: (-app_count, name); a name "Layer k" is
\* kept as the digits of k, the part in which two names differ
LayerKeyLess(a, b) ==
    \/ -a.app_count < -b.app_count
    \/ /\ a.app_count = b.app_count
       /\ StrLess(a.name, b.name)

\* list.sort(key=...): stable, ascending in the key
RECURSIVE SortLayers(_)
SortLayers(ls) ==
    IF ls = <<>> THEN <<>>
    ELSE LET front == SortLayers(SubSeq(ls, 1, Len(ls) - 1))
             x == ls[Len(ls)]
             before == SelectSeq(front, LAMBDA y : ~LayerKeyLess(x, y))
             after == SelectSeq(front, LAMBDA y : LayerKeyLess(x, y))
         IN  before \o <<x>> \o after

\* _reorder_layers
ReorderLayers(ls) == SortLayers(ls)

\* the comboboxes built by _update_layer_preview, one per tile
FreshTileDropdowns(app_count) ==
    [i \in 0..(app_count - 1) |->
        [var |-> SelectApplication,
         values |-> <<SelectApplication>> \o app_titles]]

\* _update_layer_preview of the layer with this id, on the layer list ls
UpdateLayerPreview(ls, id) ==
    ReorderLayers(
        [k \in DOMAIN ls |->
            IF ls[k].id = id
            THEN [ls[k] EXCEPT
                    !.tile_dropdowns = FreshTileDropdowns(ls[k].app_count)]
            ELSE ls[k]])

\* the layer_config of add_layer after _create_layer_ui set its widgets
NewLayer(counter) ==
    [id |-> counter,
     name |-> Digits(counter),
     app_count |-> 1,
     rows |-> 1,
     cols |-> 1,
     tile_dropdowns |-> FreshTileDropdowns(0),   \* 'tile_dropdowns': {}
     monitor_dropdown |->
        IF monitors # <<>>
        THEN [values |-> MonitorLabels(monitors),
              text |-> MonitorLabels(monitors)[1]]
        ELSE [values |-> <<>>, text |-> NoLabel],
     row_var |-> 1,
     col_var |-> 1]

add_layer ==
    /\ layer_counter' = layer_counter + 1
    /\ layers' = UpdateLayerPreview(Append(layers, NewLayer(layer_counter + 1)),
                                    layer_counter + 1)
    /\ calls' = <<>>
    /\ dialogs' = <<MessageBox("showinfo", "Layer Sorted")>>
    /\ desktop' = <<>>
    /\ os_windows' = <<>>
    /\ op' = [name |-> "add_layer"]
    /\ UNCHANGED <<monitors, app_titles, target_windows, monitor_cbx, app_cbx,
                   status_lbl>>

\* _update_grid_from_spinners, run by a spinner of the layer after the
\* spinner moved its variable to the value v
SpinnerStep(v, dir) == Max(SpinnerFrom, Min(SpinnerTo, v + dir))

UpdateGridFromSpinners(ls, id, row_var, col_var) ==
    UpdateLayerPreview(
        [k \in DOMAIN ls |->
            IF ls[k].id = id
            THEN [ls[k] EXCEPT !.row_var = row_var, !.col_var = col_var,
                               !.rows = row_var, !.cols = col_var,
                               !.app_count = row_var * col_var]
            ELSE ls[k]],
        id)

_update_grid_from_spinners(id, which, dir) ==
    LET l == layers[LayerIndex(id)]
        row_var == IF which = "row" THEN SpinnerStep(l.row_var, dir) ELSE l.row_var
        col_var == IF which = "col" THEN SpinnerStep(l.col_var, dir) ELSE l.col_var
    IN  /\ layers' = UpdateGridFromSpinners(layers, id, row_var, col_var)
        /\ calls' = <<>>
        /\ dialogs' = <<>>
        /\ desktop' = <<>>
        /\ os_windows' = <<>>
        /\ op' = [name |-> "_update_grid_from_spinners"]
        /\ UNCHANGED <<monitors, app_titles, target_windows, layer_counter,
                       monitor_cbx, app_cbx, status_lbl>>

\* _remove_layer; yes is the answer to askyesno
_remove_layer(id, yes) ==
    /\ layers' = IF yes
                 THEN ReorderLayers(SelectSeq(layers, LAMBDA l : l.id # id))
                 ELSE layers
    /\ calls' = <<>>
    /\ dialogs' = <<MessageBox("askyesno", "Remove Layer")>>
    /\ desktop' = <<>>
    /\ os_windows' = <<>>
    /\ op' = [name |-> "_remove_layer"]
    /\ UNCHANGED <<monitors, app_titles, target_windows, layer_counter,
                   monitor_cbx, app_cbx, status_lbl>>

----------------------------------------------------------------------------
(* _apply_layer *)

\* LayerCell with the cell size rounded up
LayerCellRoundedUp(mon, rows, cols, tile_index) ==
    LET base_win_w == (mon.width + cols - 1) \div cols
        base_win_h == (mon.height + rows - 1) \div rows
        row == tile_index \div cols
        col == tile_index % cols
    IN  [row |-> row, col |-> col,
         x |-> mon.x + col * base_win_w, y |-> mon.y + row * base_win_h,
         w |-> base_win_w - horizontal_gap, h |-> base_win_h - vertical_gap]

\* LayerCell with the tile index split by rows
LayerCellByRows(mon, rows, cols, tile_index) ==
    LET base_win_w == mon.width \div cols
        base_win_h == mon.height \div rows
        row == tile_index % rows
        col == tile_index \div rows
    IN  [row |-> row, col |-> col,
         x |-> mon.x + col * base_win_w, y |-> mon.y + row * base_win_h,
         w |-> base_win_w - horizontal_gap, h |-> base_win_h - vertical_gap]

\* the rectangle of the tile with this index
LayerCell(mon, rows, cols, tile_index) ==
    LET base_win_w == mon.width \div cols
        base_win_h == mon.height \div rows
        win_w == base_win_w - horizontal_gap
        win_h == base_win_h - vertical_gap
        row == tile_index \div cols
        col == tile_index % cols
    IN  [row |-> row, col |-> col,
         x |-> mon.x + col * base_win_w + (horizontal_gap \div 2),
         y |-> mon.y + row * base_win_h + (vertical_gap \div 2),
         w |-> win_w, h |-> win_h]

\* SelectedApps that takes every tile, the placeholder included
AllTiles(l) == DOMAIN l.tile_dropdowns

\* the tiles that have an application selected
SelectedApps(l) ==
    {i \in DOMAIN l.tile_dropdowns :
        /\ l.tile_dropdowns[i].var # <<>>
        /\ l.tile_dropdowns[i].var # SelectApplication}

\* the test that selects a window for a tile
LayerMatches(app_title, w) ==
    w.title # <<>> /\ In(lower(app_title), lower(w.title))

\* the inner loop over gw.getAllWindows() for one tile
RECURSIVE LayerCollect(_, _, _)
LayerCollect(st, app_title, k) ==
    IF k > Len(st.wins) THEN st
    ELSE LET w == st.wins[k]
         IN  IF LayerMatches(app_title, w)
             THEN LayerCollect(Collect(RestoreIfMinimized(st, w), w.hwnd),
                               app_title, k + 1)
             ELSE LayerCollect(st, app_title, k + 1)

\* TakeFirst taking the last matching window
TakeLast(positioned, tile_index, windows) ==
    IF windows # <<>>
    THEN Append(positioned,
                [tile_index |-> tile_index, window |-> windows[Len(windows)]])
    ELSE positioned

\* if windows: positioned_windows.append((tile_index, windows[0]))
TakeFirst(positioned, tile_index, windows) ==
    IF windows # <<>>
    THEN Append(positioned, [tile_index |-> tile_index, window |-> windows[1]])
    ELSE positioned

\* the loop over selected_apps.items(), tiles in insertion (index) order
RECURSIVE LayerFind(_, _, _)
LayerFind(st, l, tile_index) ==
    IF tile_index >= Cardinality(DOMAIN l.tile_dropdowns) THEN st
    ELSE IF tile_index \notin SelectedApps(l)
    THEN LayerFind(st, l, tile_index + 1)
    ELSE LET s1 == LayerCollect([st EXCEPT !.windows = <<>>],
                                l.tile_dropdowns[tile_index].var, 1)
         IN  LayerFind([s1 EXCEPT !.positioned =
                            TakeFirst(@, tile_index, s1.windows)],
                       l, tile_index + 1)

\* the loop over positioned_windows
RECURSIVE LayerTile(_, _, _, _, _)
LayerTile(st, mon, rows, cols, k) ==
    IF k > Len(st.positioned) THEN st
    ELSE LayerTile(Place(st, st.positioned[k].window,
                         LayerCell(mon, rows, cols, st.positioned[k].tile_index)),
                   mon, rows, cols, k + 1)

\* what _apply_layer(layer_config) does on a desktop showing the windows
\* wins, where the calls in faults raise: its dialog, its calls, the windows
\* as it leaves them, its local variables
ApplyLayerRun(id, wins, faults) ==
    LET l == layers[LayerIndex(id)]
        mon_idx == current(l.monitor_dropdown)
        selected_apps == SelectedApps(l)
        Early(ret, box) ==
            [dialogs |-> <<box>>, calls |-> <<>>, desktop |-> <<>>,
             os_windows |-> <<>>,
             op |-> [name |-> "_apply_layer", ret |-> ret, layer |-> id]]
    IN
    IF monitors = <<>>
    THEN Early("no_detect", MessageBox("showerror", "Error"))
    ELSE IF mon_idx = -1
    THEN Early("no_monitor", MessageBox("showerror", "Error"))
    ELSE IF selected_apps = {}
    THEN Early("no_apps", MessageBox("showwarning", "No Apps"))
    ELSE IF mon_idx >= Len(monitors)
    THEN [dialogs |-> <<>>, calls |-> <<>>, desktop |-> <<>>,
          os_windows |-> <<>>,
          op |-> [name |-> "_apply_layer", ret |-> "IndexError",
                  layer |-> id, mon_idx |-> mon_idx]]
    ELSE
    LET mon == monitors[mon_idx + 1]
        s1 == LayerFind(Start(wins, faults), l, 0)
        s2 == LayerTile(s1, mon, l.rows, l.cols, 1)
    IN
    IF s1.positioned = <<>>
    THEN [dialogs |-> <<MessageBox("showinfo", "No Windows")>>,
          calls |-> s1.calls, desktop |-> wins, os_windows |-> s1.wins,
          op |-> [name |-> "_apply_layer", ret |-> "no_windows",
                  layer |-> id, mon_idx |-> mon_idx]]
    ELSE [dialogs |-> <<MessageBox("showinfo", "Layer Sorted")>>,
          calls |-> s2.calls, desktop |-> wins, os_windows |-> s2.wins,
          op |-> [name |-> "_apply_layer", ret |-> "done",
                  layer |-> id, mon_idx |-> mon_idx,
                  rows |-> l.rows, cols |-> l.cols,
                  positioned_windows |-> s1.positioned,
                  cells |-> s2.cells]]

\* _apply_layer that keeps the windows it placed as the target windows
ApplyLayerAsTargets(id, wins, faults) ==
    LET run == ApplyLayerRun(id, wins, faults)
    IN  /\ dialogs' = run.dialogs
        /\ calls' = run.calls
        /\ desktop' = run.desktop
        /\ os_windows' = run.os_windows
        /\ op' = run.op
        /\ target_windows' =
            IF run.op.ret = "done"
            THEN [k \in 1..Len(run.op.positioned_windows) |->
                    run.op.positioned_windows[k].window]
            ELSE target_windows
        /\ UNCHANGED <<monitors, app_titles, layers, layer_counter,
                       monitor_cbx, app_cbx, status_lbl>>

\* _apply_layer assigns no field of self
_apply_layer(id, wins, faults) ==
    LET run == ApplyLayerRun(id, wins, faults)
    IN  /\ dialogs' = run.dialogs
        /\ calls' = run.calls
        /\ desktop' = run.desktop
        /\ os_windows' = run.os_windows
        /\ op' = run.op
        /\ UNCHANGED progVars

----------------------------------------------------------------------------
(* detect() *)

\* first occurrence of each distinct non-empty title, in enumeration order
RECURSIVE DistinctTitles(_, _)
DistinctTitles(wins, seen) ==
    IF wins = <<>> THEN <<>>
    ELSE LET t == Head(wins).title
         IN  IF t # <<>> /\ t \notin seen
             THEN <<t>> \o DistinctTitles(Tail(wins), seen \cup {t})
             ELSE DistinctTitles(Tail(wins), seen)

\* cbx["values"] = values; if values and cbx.current() == -1: cbx.current(0)
Refill(cbx, values) ==
    LET c == [cbx EXCEPT !.values = values]
    IN  IF values # <<>> /\ current(c) = -1 THEN SetCurrent(c, 0) ELSE c

\* _update_layer_app_dropdowns
UpdateLayerAppDropdowns(l, titles) ==
    [l EXCEPT !.tile_dropdowns =
        [i \in DOMAIN @ |->
            [var |-> IF \E k \in 1..Len(titles) : titles[k] = @[i].var
                     THEN @[i].var
                     ELSE SelectApplication,
             values |-> <<SelectApplication>> \o titles]]]

\* UpdateLayerMonitorDropdown that leaves the dropdown as it was built
KeepLayerMonitorDropdown(l, mons) == l

\* _update_layer_monitor_dropdown
UpdateLayerMonitorDropdown(l, mons) ==
    IF mons = <<>> THEN l
    ELSE LET current_selection == current(l.monitor_dropdown)
             monitor_values == MonitorLabels(mons)
             d == [l.monitor_dropdown EXCEPT !.values = monitor_values]
         IN  [l EXCEPT !.monitor_dropdown =
                IF current_selection # -1 /\ current_selection < Len(monitor_values)
                THEN SetCurrent(d, current_selection)
                ELSE SetCurrent(d, 0)]

\* detect() when get_monitors() gives mons and gw.getAllWindows() gives wins
detect(mons, wins) ==
    LET titles == DistinctTitles(wins, {})
        ls == [k \in DOMAIN layers |->
                UpdateLayerMonitorDropdown(
                    UpdateLayerAppDropdowns(layers[k], titles), mons)]
    IN  /\ monitors' = mons
        /\ monitor_cbx' = Refill(monitor_cbx, MonitorLabels(mons))
        /\ app_titles' = titles
        /\ app_cbx' = Refill(app_cbx, titles)
        /\ layers' = ls
        /\ status_lbl' = StatusText(mons, titles, target_windows, ls)
        /\ desktop' = wins
        /\ os_windows' = wins
        /\ calls' = <<>>
        /\ dialogs' = <<>>
        /\ op' = [name |-> "detect"]
        /\ UNCHANGED <<target_windows, layer_counter>>

----------------------------------------------------------------------------
(* The user picking entries of the read-only comboboxes *)

Pick ==
    /\ \/ \E i \in 1..Len(monitor_cbx.values) :
            /\ monitor_cbx' = SetCurrent(monitor_cbx, i - 1)
            /\ UNCHANGED <<app_cbx, layers>>
       \/ \E i \in 1..Len(app_cbx.values) :
            /\ app_cbx' = SetCurrent(app_cbx, i - 1)
            /\ UNCHANGED <<monitor_cbx, layers>>
       \/ \E k \in 1..Len(layers) :
          \E i \in 1..Len(layers[k].monitor_dropdown.values) :
            /\ layers' = [layers EXCEPT ![k].monitor_dropdown =
                            SetCurrent(@, i - 1)]
            /\ UNCHANGED <<monitor_cbx, app_cbx>>
       \/ \E k \in 1..Len(layers) :
          \E t \in DOMAIN layers[k].tile_dropdowns :
          \E i \in 1..Len(layers[k].tile_dropdowns[t].values) :
            /\ layers' = [layers EXCEPT ![k].tile_dropdowns[t].var =
                            layers[k].tile_dropdowns[t].values[i]]
            /\ UNCHANGED <<monitor_cbx, app_cbx>>
    /\ calls' = <<>>
    /\ dialogs' = <<>>
    /\ desktop' = <<>>
    /\ os_windows' = <<>>
    /\ op' = [name |-> "pick"]
    /\ UNCHANGED <<monitors, app_titles, target_windows, layer_counter,
                   status_lbl>>

----------------------------------------------------------------------------
(* The desktop: what the collaborators may return *)

Mon1 == [x |-> 0, y |-> 0, width |-> 1920, height |-> 1080]
Mon2 == [x |-> -1280, y |-> -300, width |-> 1280, height |-> 1024]
Mon3 == [x |-> 1920, y |-> -100, width |-> 1366, height |-> 768]

TitleA == <<"a">>
TitleAb == <<"A", "b">>
NoTitle == <<>>

\* a window as the desktop shows it before the program touches it
Window(hwnd, title, isMinimized) ==
    [hwnd |-> hwnd, title |-> title, isMinimized |-> isMinimized,
     left |-> 100, top |-> 100, width |-> 300, height |-> 200]

\* what get_monitors() returns: a desktop has one screen or two
MonitorLists == {<<Mon1>>, <<Mon1, Mon2>>}

WindowLists ==
    {<<>>,
     <<Window(1, TitleAb, TRUE), Window(2, NoTitle, FALSE)>>}

----------------------------------------------------------------------------
(* The program from its construction, driven by the user's actions *)

Init ==
    /\ monitors = <<>>
    /\ app_titles = <<>>
    /\ target_windows = <<>>
    /\ layers = <<>>
    /\ layer_counter = 0
    /\ monitor_cbx = [values |-> <<>>, text |-> NoLabel]
    /\ app_cbx = [values |-> <<>>, text |-> <<>>]
    /\ status_lbl = [text |-> "Press Detect to begin.", monitors |-> 0,
                     titles |-> 0, matched |-> 0, layers |-> 0]
    /\ desktop = <<>>
    /\ os_windows = <<>>
    /\ calls = <<>>
    /\ dialogs = <<>>
    /\ op = [name |-> "init"]

Detect == \E mons \in MonitorLists : \E wins \in WindowLists : detect(mons, wins)

Sort == \E wins \in WindowLists : sort(wins, {})

RECURSIVE TotalTiles(_)
TotalTiles(ls) ==
    IF ls = <<>> THEN 0 ELSE Head(ls).app_count + TotalTiles(Tail(ls))

AddLayer ==
    /\ layer_counter < MaxLayerCounter
    /\ TotalTiles(layers) + 1 <= MaxTotalTiles
    /\ add_layer

UpdateGrid ==
    \E k \in 1..Len(layers) : \E which \in {"row", "col"} : \E dir \in {-1, 1} :
        /\ LET l == layers[k]
               r == IF which = "row" THEN SpinnerStep(l.row_var, dir) ELSE l.row_var
               c == IF which = "col" THEN SpinnerStep(l.col_var, dir) ELSE l.col_var
           IN  TotalTiles(layers) - l.app_count + r * c <= MaxTotalTiles
        /\ _update_grid_from_spinners(layers[k].id, which, dir)

ApplyLayer ==
    \E k \in 1..Len(layers) : \E wins \in WindowLists :
        _apply_layer(layers[k].id, wins, {})

RemoveLayer ==
    \E k \in 1..Len(layers) : \E yes \in BOOLEAN :
        _remove_layer(layers[k].id, yes)

Next ==
    \/ Detect
    \/ Sort
    \/ AddLayer
    \/ UpdateGrid
    \/ ApplyLayer
    \/ RemoveLayer
    \/ Pick

Spec == Init /\ [][Next]_vars

----------------------------------------------------------------------------
(* The state after Detect and the user's picks, given directly             *)

\* after detect() found mons and windows with the distinct titles titles,
\* and the user picked entry monSel and entry appSel of the main comboboxes
Detected(mons, monSel, titles, appSel) ==
    /\ monitors = mons
    /\ app_titles = titles
    /\ target_windows = <<>>
    /\ monitor_cbx = SetCurrent([values |-> MonitorLabels(mons),
                                 text |-> NoLabel], monSel)
    /\ app_cbx = SetCurrent([values |-> titles, text |-> <<>>], appSel)
    /\ status_lbl = StatusText(mons, titles, <<>>, <<>>)
    /\ desktop = <<>>
    /\ os_windows = <<>>
    /\ calls = <<>>
    /\ dialogs = <<>>
    /\ op = [name |-> "pick"]

\* one layer added after that detect, its spinners moved to rows x cols, entry
\* monSel of its monitor combobox picked, and the title assign[t] picked for
\* each tile t in the domain of assign
LayerAdded(rows, cols, monSel, assign) ==
    LET l == UpdateGridFromSpinners(
                UpdateLayerPreview(<<NewLayer(1)>>, 1), 1, rows, cols)[1]
    IN  [l EXCEPT
            !.monitor_dropdown = SetCurrent(@, monSel),
            !.tile_dropdowns =
                [t \in DOMAIN @ |->
                    IF t \in DOMAIN assign
                    THEN [@[t] EXCEPT !.var = assign[t]]
                    ELSE @[t]]]

----------------------------------------------------------------------------
(* Geometry: sort() on 1..MaxWin matching windows and _apply_layer on every *)
(* grid the spinners allow, over monitors at several origins and sizes      *)

GridMonitorLists == {<<Mon1>>, <<Mon1, Mon2>>, <<Mon3, Mon2>>}

Spinner == SpinnerFrom..SpinnerTo

InitGrid ==
    \/ \E mons \in GridMonitorLists : \E monSel \in 0..(Len(mons) - 1) :
        /\ Detected(mons, monSel, <<TitleAb, TitleA>>, 0)
        /\ layers = <<>>
        /\ layer_counter = 0
    \/ \E monSel \in 0..1 : \E rows \in Spinner : \E cols \in Spinner :
       \E t1 \in 0..(rows * cols - 1) : \E t2 \in 0..(rows * cols - 1) :
        /\ Detected(<<Mon3, Mon2>>, 0, <<TitleAb, TitleA>>, 0)
        /\ layers = <<LayerAdded(rows, cols, monSel,
                        IF t1 = t2 THEN (t1 :> TitleA)
                        ELSE (t1 :> TitleA) @@ (t2 :> TitleAb))>>
        /\ layer_counter = 1

\* the desktops of n windows titled "Ab" or "a"; the selected title "Ab"
\* matches the former only
GridDesktops(n) ==
    {[i \in 1..n |-> Window(i, ts[i], FALSE)] :
        ts \in [1..n -> {TitleAb, TitleA}]}

\* no handler has run since the user's picks
Configured == op.name = "pick"

GridSort ==
    /\ Configured
    /\ layers = <<>>
    /\ \E n \in 1..MaxWin : \E wins \in GridDesktops(n) : sort(wins, {})

GridApply ==
    /\ Configured
    /\ \E k \in 1..Len(layers) :
        _apply_layer(layers[k].id,
            <<Window(2, TitleA, FALSE), Window(1, TitleAb, FALSE)>>, {})

NextGrid ==
    \/ GridSort
    \/ GridApply

SpecGrid == InitGrid /\ [][NextGrid]_vars

----------------------------------------------------------------------------
(* Matching and failures: sort() and _apply_layer on every desktop of up to *)
(* MaxMatchWin windows, minimized or not, with calls that raise             *)

Titles == {NoTitle, TitleA, TitleAb}

\* the desktops of n windows; the handle of a window is its place
Desktops(n) ==
    {[i \in 1..n |-> Window(i, ts[i], ms[i])] :
        ts \in [1..n -> Titles], ms \in [1..n -> BOOLEAN]}

\* the calls that raise: none, one call, restore and one more call on the
\* same window, or every call
FaultSets(n) ==
    {{}} \cup {{<<h, m>>} : h \in 1..n, m \in Methods}
         \cup {{<<h, "restore">>, <<h, m>>} : h \in 1..n, m \in Methods}
         \cup {(1..n) \X Methods}

TileChoices == {SelectApplication, TitleAb, TitleA}

InitTile ==
    \/ \E appSel \in 0..1 :
        /\ Detected(<<Mon2, Mon1>>, 0, <<TitleAb, TitleA>>, appSel)
        /\ layers = <<>>
        /\ layer_counter = 0
    \/ \E v0 \in TileChoices : \E v1 \in TileChoices :
        /\ Detected(<<Mon2, Mon1>>, 0, <<TitleAb, TitleA>>, 0)
        /\ layers = <<LayerAdded(1, 2, 1, (0 :> v0) @@ (1 :> v1))>>
        /\ layer_counter = 1

TileSort ==
    /\ Configured
    /\ layers = <<>>
    /\ \E n \in 0..MaxMatchWin : \E wins \in Desktops(n) :
       \E faults \in FaultSets(n) : sort(wins, faults)

TileApply ==
    /\ Configured
    /\ \E k \in 1..Len(layers) :
       \E n \in 0..MaxMatchWin : \E wins \in Desktops(n) :
       \E faults \in FaultSets(n) : _apply_layer(layers[k].id, wins, faults)

NextTile ==
    \/ TileSort
    \/ TileApply

SpecTile == InitTile /\ [][NextTile]_vars

----------------------------------------------------------------------------
(* Properties *)

\* the handler that ran last tiled windows
Tiled == op.name \in {"sort", "_apply_layer"} /\ op.ret = "done"

\* the monitor that handler read
UsedMonitor == monitors[op.mon_idx + 1]

CallsOf(fn) == SelectSeq(calls, LAMBDA c : c.fn = fn)

\* the rectangles the windows were resized and moved to, when no call raised
Rects ==
    [k \in 1..Len(CallsOf("moveTo")) |->
        [hwnd |-> CallsOf("moveTo")[k].hwnd,
         x |-> CallsOf("moveTo")[k].a, y |-> CallsOf("moveTo")[k].b,
         w |-> CallsOf("resizeTo")[k].a, h |-> CallsOf("resizeTo")[k].b]]

NoCallRaised == \A j \in DOMAIN calls : calls[j].ok

\* two letters equal up to case
SameLetter(a, b) ==
    \/ a = b
    \/ {a, b} = {"a", "A"}
    \/ {a, b} = {"b", "B"}

\* title contains query as a substring, up to case
ContainsIgnoreCase(query, title) ==
    \E off \in 0..(Len(title) - Len(query)) :
        \A j \in 1..Len(query) : SameLetter(title[off + j], query[j])

\* the windows of the desktop whose title contains query, in enumeration order
MatchingHandles(query) ==
    LET ws == SelectSeq(desktop, LAMBDA w : ContainsIgnoreCase(query, w.title))
    IN  [k \in 1..Len(ws) |-> ws[k].hwnd]

\* the title selected in the main application combobox
SelectedTitle == app_titles[op.app_idx + 1]

\* C1: when sort() tiles n >= 1 matched windows, the grid is 2 x 2 for n = 4
\* and otherwise has cols = min(3, n) and rows = ceil(n / cols), the least
\* number of rows of cols cells that hold n; in every case rows * cols >= n.
C1_SortGrid ==
    (op.name = "sort" /\ op.ret = "done") =>
        /\ op.n = Len(MatchingHandles(SelectedTitle))
        /\ op.n >= 1
        /\ IF op.n = 4
           THEN op.rows = 2 /\ op.cols = 2
           ELSE /\ op.cols = (IF op.n < 3 THEN op.n ELSE 3)
                /\ (op.rows - 1) * op.cols < op.n
                /\ op.n <= op.rows * op.cols
        /\ op.rows * op.cols >= op.n

C1_Witness ==
    /\ op.name = "sort" /\ op.ret = "done"
    /\ op.n = 4 /\ op.rows = 2 /\ op.cols = 2
    /\ Len(desktop) > 4

\* C2: every rectangle a window is resized and moved to, by sort() or by
\* _apply_layer(), is the cell of a column 0 <= col < cols and a row
\* 0 <= row < rows and lies inside the monitor, also for a monitor at a
\* negative origin.
C2_TilesInsideMonitor ==
    Tiled =>
        /\ NoCallRaised
        /\ Len(Rects) = Len(op.cells)
        /\ \A k \in DOMAIN op.cells :
            LET c == op.cells[k]
                rect == Rects[k]
                mon == UsedMonitor
            IN  /\ 0 <= c.col /\ c.col < op.cols
                /\ 0 <= c.row /\ c.row < op.rows
                /\ rect.x = c.x /\ rect.y = c.y /\ rect.w = c.w /\ rect.h = c.h
                /\ mon.x <= rect.x
                /\ rect.x + rect.w <= mon.x + mon.width
                /\ mon.y <= rect.y
                /\ rect.y + rect.h <= mon.y + mon.height

C2_Witness ==
    /\ op.name = "_apply_layer" /\ op.ret = "done"
    /\ op.rows = 5 /\ op.cols = 4
    /\ UsedMonitor.x < 0 /\ UsedMonitor.y < 0
    /\ \E k \in DOMAIN op.cells : op.cells[k].row = 4 /\ op.cells[k].col = 3

\* the cell the claim gives index i of a rows x cols grid on the monitor mon
ClaimedCell(mon, rows, cols, i) ==
    [row |-> i \div cols, col |-> i % cols,
     x |-> mon.x + (i % cols) * (mon.width \div cols),
     y |-> mon.y + (i \div cols) * (mon.height \div rows),
     w |-> (mon.width \div cols) - 1,
     h |-> (mon.height \div rows) - 1]

\* the window and the grid index of the k-th placement of the handler
PlacedWindow(k) ==
    IF op.name = "sort"
    THEN MatchingHandles(SelectedTitle)[k]
    ELSE op.positioned_windows[k].window

PlacedIndex(k) ==
    IF op.name = "sort" THEN k - 1 ELSE op.positioned_windows[k].tile_index

Placements ==
    IF op.name = "sort"
    THEN Len(MatchingHandles(SelectedTitle))
    ELSE Len(op.positioned_windows)

\* C3: the window at index i of a rows x cols grid is resized to
\* (floor(width / cols) - 1) x (floor(height / rows) - 1) and moved to
\* x = monitor.x + (i mod cols) * floor(width / cols),
\* y = monitor.y + (i div cols) * floor(height / rows); in sort() the i-th
\* matched window in enumeration order has index i, in _apply_layer() the
\* window of tile i has index i.
C3_CellGeometry ==
    Tiled =>
        /\ NoCallRaised
        /\ Len(Rects) = Placements
        /\ Len(op.cells) = Placements
        /\ \A k \in 1..Placements :
            LET cell == ClaimedCell(UsedMonitor, op.rows, op.cols, PlacedIndex(k))
            IN  /\ Rects[k] = [hwnd |-> PlacedWindow(k), x |-> cell.x,
                               y |-> cell.y, w |-> cell.w, h |-> cell.h]
                /\ CallsOf("resizeTo")[k].hwnd = PlacedWindow(k)
                /\ op.cells[k].row = cell.row
                /\ op.cells[k].col = cell.col
                /\ \E j \in DOMAIN os_windows :
                    /\ os_windows[j].hwnd = PlacedWindow(k)
                    /\ (\A k2 \in (k + 1)..Placements :
                            PlacedWindow(k2) # PlacedWindow(k))
                        => /\ os_windows[j].left = cell.x
                           /\ os_windows[j].top = cell.y
                           /\ os_windows[j].width = cell.w
                           /\ os_windows[j].height = cell.h

C3_Witness ==
    /\ op.name = "sort" /\ op.ret = "done"
    /\ op.n = 5
    /\ Len(desktop) = 7
    /\ UsedMonitor = Mon2
    /\ Rects[5] = [hwnd |-> MatchingHandles(SelectedTitle)[5],
                   x |-> -854, y |-> 212, w |-> 425, h |-> 511]

\* C4: the rectangles of two different indices of one grid never overlap:
\* a gap of at least one pixel separates them, across or down.
C4_TilesDisjoint ==
    Tiled =>
        /\ NoCallRaised
        /\ Len(Rects) = Len(op.cells)
        /\ \A k1 \in DOMAIN Rects : \A k2 \in DOMAIN Rects :
            (k1 # k2) =>
                LET r1 == Rects[k1]
                    r2 == Rects[k2]
                IN  \/ r1.x + r1.w + 1 <= r2.x
                    \/ r2.x + r2.w + 1 <= r1.x
                    \/ r1.y + r1.h + 1 <= r2.y
                    \/ r2.y + r2.h + 1 <= r1.y

C4_Witness ==
    /\ op.name = "sort" /\ op.ret = "done"
    /\ op.n = 7
    /\ \E k \in DOMAIN Rects : Rects[k].x + Rects[k].w + 1 = Rects[k + 1].x
    /\ \E k \in DOMAIN Rects : Rects[k].y + Rects[k].h + 1 = Rects[k + 3].y

\* the handler that ran last enumerated the windows
Enumerated ==
    /\ op.name \in {"sort", "_apply_layer"}
    /\ op.ret \in {"done", "nothing_to_do", "no_windows"}

HandlesOf(cs) == [k \in 1..Len(cs) |-> cs[k].hwnd]

\* C5: after sort() has matched, the target window list is exactly the
\* subsequence of the enumerated windows whose title contains the selected
\* title up to case, in enumeration order, minimized or not.
C5_TargetsAreMatches ==
    (op.name = "sort" /\ Enumerated) =>
        /\ target_windows = MatchingHandles(SelectedTitle)
        /\ HandlesOf(CallsOf("append")) = target_windows

C5_Witness ==
    /\ op.name = "sort" /\ op.ret = "done"
    /\ SelectedTitle = TitleAb
    /\ Len(desktop) = 3
    /\ desktop[1].title = TitleAb /\ desktop[1].isMinimized
    /\ desktop[2].title = TitleA
    /\ desktop[3].title = TitleAb /\ ~desktop[3].isMinimized
    /\ target_windows = <<1, 3>>

\* the layer the handler was applied to
AppliedLayer == layers[LayerIndex(op.layer)]

\* the tiles of a layer that have an application assigned
Assigned(l) ==
    {i \in DOMAIN l.tile_dropdowns :
        l.tile_dropdowns[i].var \notin {<<>>, SelectApplication}}

\* the window w matches the title assigned to tile i of the applied layer
MatchesTile(i, w) ==
    /\ w.title # <<>>
    /\ ContainsIgnoreCase(AppliedLayer.tile_dropdowns[i].var, w.title)

\* the window w is one the handler looks for
Matched(w) ==
    IF op.name = "sort"
    THEN ContainsIgnoreCase(SelectedTitle, w.title)
    ELSE \E i \in Assigned(AppliedLayer) : MatchesTile(i, w)

\* the j-th window enumerated is one the handler has to place
InBatch(j) ==
    IF op.name = "sort"
    THEN Matched(desktop[j])
    ELSE \E i \in Assigned(AppliedLayer) :
            /\ MatchesTile(i, desktop[j])
            /\ \A j2 \in 1..(j - 1) : ~MatchesTile(i, desktop[j2])

CallsOn(hwnd, fns) ==
    {j \in DOMAIN calls : calls[j].hwnd = hwnd /\ calls[j].fn \in fns}

\* C6: every matching window that is minimized has restore requested before
\* it is added to the handler's list of matches and before any resize or
\* move of it; a matching window whose restore raises is still added, and
\* when it is a window to place it is still resized and (the resize not
\* raising) moved.
C6_RestoreFirst ==
    Enumerated =>
        \A j \in DOMAIN desktop :
            LET w == desktop[j]
            IN  (w.isMinimized /\ Matched(w)) =>
                /\ \E r \in CallsOn(w.hwnd, {"restore"}) :
                    \A c \in CallsOn(w.hwnd, {"append", "resizeTo", "moveTo"}) :
                        r < c
                /\ CallsOn(w.hwnd, {"append"}) # {}
                /\ (op.name = "sort") =>
                        \E k \in DOMAIN target_windows :
                            target_windows[k] = w.hwnd
                /\ InBatch(j) =>
                    /\ \E c \in CallsOn(w.hwnd, {"resizeTo"}) :
                        calls[c].ok => /\ c + 1 \in CallsOn(w.hwnd, {"moveTo"})
                    /\ (\A c \in CallsOn(w.hwnd, {"resizeTo", "moveTo"}) :
                            calls[c].ok)
                        => \E k \in DOMAIN op.cells :
                            /\ op.cells[k].hwnd = w.hwnd
                            /\ os_windows[j].left = op.cells[k].x
                            /\ os_windows[j].top = op.cells[k].y
                            /\ os_windows[j].width = op.cells[k].w
                            /\ os_windows[j].height = op.cells[k].h

C6_Witness ==
    /\ op.name = "sort" /\ op.ret = "done"
    /\ \E j \in DOMAIN desktop :
        /\ desktop[j].isMinimized
        /\ Matched(desktop[j])
        /\ \E r \in CallsOn(desktop[j].hwnd, {"restore"}) : ~calls[r].ok
        /\ os_windows[j].isMinimized
        /\ target_windows[Len(target_windows)] = desktop[j].hwnd
        /\ os_windows[j].width = op.cells[Len(op.cells)].w
        /\ os_windows[j].left = op.cells[Len(op.cells)].x
        /\ os_windows[j].left # desktop[j].left

\* the place in the call log of the k-th resizeTo
ResizeAt(k) ==
    CHOOSE j \in DOMAIN calls :
        /\ calls[j].fn = "resizeTo"
        /\ Cardinality({i \in 1..j : calls[i].fn = "resizeTo"}) = k

\* the window of the k-th placement ends where that placement put it
KeptAt(k, resized, moved) ==
    LET cell == ClaimedCell(UsedMonitor, op.rows, op.cols, PlacedIndex(k))
    IN  \A j \in DOMAIN os_windows :
            (/\ os_windows[j].hwnd = PlacedWindow(k)
             /\ \A k2 \in (k + 1)..Placements : PlacedWindow(k2) # PlacedWindow(k))
            => /\ resized => /\ os_windows[j].width = cell.w
                             /\ os_windows[j].height = cell.h
               /\ moved => /\ os_windows[j].left = cell.x
                           /\ os_windows[j].top = cell.y

\* C7: in sort() and _apply_layer(), whichever resize, move or activate
\* calls raise, every window of the batch is still resized to its own cell
\* and, its own resize not raising, moved to it; a window that was placed
\* stays where it was put; the handler ends with its ordinary closing dialog.
C7_FailureIsolated ==
    Tiled =>
        /\ Len(CallsOf("resizeTo")) = Placements
        /\ dialogs = <<[kind |-> "showinfo",
                        title |-> IF op.name = "sort" THEN "Done"
                                  ELSE "Layer Sorted"]>>
        /\ \A k \in 1..Placements :
            LET cell == ClaimedCell(UsedMonitor, op.rows, op.cols, PlacedIndex(k))
                j == ResizeAt(k)
                resized == calls[j].ok
                moved == resized /\ calls[j + 1].ok
            IN  /\ calls[j] = [fn |-> "resizeTo", hwnd |-> PlacedWindow(k),
                               a |-> cell.w, b |-> cell.h, ok |-> resized]
                /\ resized =>
                    /\ j + 1 \in DOMAIN calls
                    /\ calls[j + 1] = [fn |-> "moveTo", hwnd |-> PlacedWindow(k),
                                       a |-> cell.x, b |-> cell.y,
                                       ok |-> calls[j + 1].ok]
                /\ moved =>
                    /\ j + 2 \in DOMAIN calls
                    /\ calls[j + 2].fn = "activate"
                    /\ calls[j + 2].hwnd = PlacedWindow(k)
                /\ KeptAt(k, resized, moved)

C7_Witness ==
    /\ op.name = "sort" /\ op.ret = "done"
    /\ Placements = 3
    /\ ~calls[ResizeAt(2) + 1].ok
    /\ calls[ResizeAt(2) + 1].fn = "moveTo"
    /\ \A k \in {1, 3} :
        /\ calls[ResizeAt(k)].ok
        /\ calls[ResizeAt(k) + 1].ok
        /\ \E j \in DOMAIN os_windows :
            /\ os_windows[j].hwnd = PlacedWindow(k)
            /\ os_windows[j].left = op.cells[k].x
            /\ os_windows[j].top = op.cells[k].y
            /\ os_windows[j].width = op.cells[k].w

\* the tiles of the applied layer with an application assigned that some
\* window matches
TilesToPlace ==
    {i \in Assigned(AppliedLayer) :
        \E j \in DOMAIN desktop : MatchesTile(i, desktop[j])}

\* the first window in enumeration order that matches tile i
FirstMatch(i) ==
    desktop[CHOOSE j \in DOMAIN desktop :
                /\ MatchesTile(i, desktop[j])
                /\ \A j2 \in 1..(j - 1) : ~MatchesTile(i, desktop[j2])].hwnd

\* those tiles in index order, each with its first match
ToPlace ==
    [k \in 1..Cardinality(TilesToPlace) |->
        LET i == CHOOSE t \in TilesToPlace :
                    Cardinality({t2 \in TilesToPlace : t2 < t}) = k - 1
        IN  [tile_index |-> i, window |-> FirstMatch(i)]]

\* the cell of tile i of the applied layer
TileCell(i) ==
    ClaimedCell(monitors[op.mon_idx + 1], AppliedLayer.rows,
                AppliedLayer.cols, i)

\* C9: when a layer is applied, for each tile with an application assigned
\* only the first window in enumeration order whose title matches is resized
\* and moved, to that tile's cell; no other window is resized or moved, and
\* a tile without an assignment places no window.
C9_FirstMatchOnly ==
    (op.name = "_apply_layer" /\ Enumerated) =>
        /\ (op.ret = "done") <=> (Len(ToPlace) > 0)
        /\ (op.ret = "done") => op.positioned_windows = ToPlace
        /\ Len(CallsOf("resizeTo")) = Len(ToPlace)
        /\ \A k \in DOMAIN ToPlace :
            /\ CallsOf("resizeTo")[k].hwnd = ToPlace[k].window
            /\ CallsOf("resizeTo")[k].a = TileCell(ToPlace[k].tile_index).w
            /\ CallsOf("resizeTo")[k].b = TileCell(ToPlace[k].tile_index).h
        /\ \A c \in DOMAIN calls :
            (calls[c].fn = "moveTo") =>
                \E k \in DOMAIN ToPlace :
                    /\ calls[c].hwnd = ToPlace[k].window
                    /\ calls[c].a = TileCell(ToPlace[k].tile_index).x
                    /\ calls[c].b = TileCell(ToPlace[k].tile_index).y
        /\ \A j \in DOMAIN desktop :
            (\A k \in DOMAIN ToPlace : ToPlace[k].window # desktop[j].hwnd) =>
                /\ CallsOn(desktop[j].hwnd, {"resizeTo", "moveTo", "activate"}) = {}
                /\ os_windows[j].left = desktop[j].left
                /\ os_windows[j].top = desktop[j].top
                /\ os_windows[j].width = desktop[j].width
                /\ os_windows[j].height = desktop[j].height

C9_Witness ==
    /\ op.name = "_apply_layer" /\ op.ret = "done"
    /\ Assigned(AppliedLayer) = {1}
    /\ Len(desktop) = 3
    /\ desktop[1].title = NoTitle
    /\ MatchesTile(1, desktop[2])
    /\ MatchesTile(1, desktop[3]) /\ desktop[3].isMinimized
    /\ op.positioned_windows = <<[tile_index |-> 1, window |-> desktop[2].hwnd]>>
    /\ CallsOn(desktop[3].hwnd, {"restore"}) # {}
    /\ os_windows[2].left = TileCell(1).x
    /\ os_windows[3].left = desktop[3].left

\* the user was told of a problem: an error or a warning dialog
Reported ==
    /\ Len(dialogs) = 1
    /\ dialogs[1].kind \in {"showerror", "showwarning"}

\* no window was touched
Untouched == calls = <<>> /\ os_windows = desktop

\* C8: when sort() or _apply_layer() runs while a precondition fails (the
\* monitor list or the title list is empty, no monitor or no application is
\* selected, the layer has no tile with an application assigned), a problem
\* is reported in a dialog and the handler ends without a restore, resize,
\* move or activate call on any window.
C8_PreconditionFailure ==
    /\ (/\ op.name = "sort"
        /\ \/ monitors = <<>>
           \/ app_titles = <<>>
           \/ current(monitor_cbx) = -1
           \/ current(app_cbx) = -1)
       => Reported /\ Untouched
    /\ (/\ op.name = "_apply_layer"
        /\ \/ monitors = <<>>
           \/ app_titles = <<>>
           \/ current(AppliedLayer.monitor_dropdown) = -1
           \/ Assigned(AppliedLayer) = {})
       => Reported /\ Untouched

C8_Witness ==
    /\ op.name = "_apply_layer"
    /\ monitors # <<>> /\ app_titles # <<>>
    /\ current(AppliedLayer.monitor_dropdown) # -1
    /\ AppliedLayer.app_count = 2
    /\ Assigned(AppliedLayer) = {}
    /\ dialogs = <<[kind |-> "showwarning", title |-> "No Apps"]>>
    /\ calls = <<>>

\* C10: applying a layer leaves the target window list of the Sort mode and
\* every other layer unchanged, and sort() leaves every layer unchanged.
C10_Frame ==
    [][/\ (op'.name = "_apply_layer") =>
            /\ target_windows' = target_windows
            /\ Len(layers') = Len(layers)
            /\ \A k \in DOMAIN layers :
                (layers[k].id # op'.layer) => layers'[k] = layers[k]
       /\ (op'.name = "sort") => layers' = layers]_vars

C10_Witness ==
    /\ op.name = "_apply_layer" /\ op.ret = "done"
    /\ Len(layers) = 2
    /\ target_windows # <<>>
    /\ layers[1].id = op.layer

\* the four counts of the state at this moment, as _update_status writes them
CurrentCounts ==
    [text |-> "counts", monitors |-> Len(monitors), titles |-> Len(app_titles),
     matched |-> Len(target_windows), layers |-> Len(layers)]

\* C11: after every user action (Detect, Sort, Add Layer, Sort Layer,
\* Remove) the status readout shows the current counts of monitors, distinct
\* titles, matched windows and layers.  Read in the claim's favour: actions
\* that ended on a precondition dialog, and the time before the first Detect
\* while the readout still shows its opening prompt, are left out.
C11_StatusCurrent ==
    (/\ op.name \in {"detect", "sort", "add_layer", "_apply_layer",
                     "_remove_layer"}
     /\ ~Reported
     /\ status_lbl.text # "Press Detect to begin.")
    => status_lbl = CurrentCounts

----------------------------------------------------------------------------
(* Layer management alone: layers are added, resized and removed until    *)
(* MaxCreated layers were created, at most MaxAlive of them at a time     *)

MaxCreated == 10
MaxAlive == 2
MaxAliveTiles == 3

LayersAdd ==
    /\ layer_counter < MaxCreated
    /\ Len(layers) < MaxAlive
    /\ TotalTiles(layers) + 1 <= MaxAliveTiles
    /\ add_layer

LayersGrid ==
    \E k \in 1..Len(layers) : \E which \in {"row", "col"} : \E dir \in {-1, 1} :
        /\ LET l == layers[k]
               r == IF which = "row" THEN SpinnerStep(l.row_var, dir) ELSE l.row_var
               c == IF which = "col" THEN SpinnerStep(l.col_var, dir) ELSE l.col_var
           IN  TotalTiles(layers) - l.app_count + r * c <= MaxAliveTiles
        /\ _update_grid_from_spinners(layers[k].id, which, dir)

LayersRemove ==
    \E k \in 1..Len(layers) : \E yes \in BOOLEAN :
        _remove_layer(layers[k].id, yes)

NextLayers ==
    \/ LayersAdd
    \/ LayersGrid
    \/ LayersRemove

SpecLayers == Init /\ [][NextLayers]_vars

\* C12: after any sequence of add layer, change grid size and remove layer,
\* the layer list is ordered by tile count (rows * cols) descending, and
\* layers with the same tile count are in creation order, however many
\* layers were created.
C12_LayerOrder ==
    \A i \in DOMAIN layers : \A j \in DOMAIN layers :
        (i < j) =>
            \/ layers[i].rows * layers[i].cols > layers[j].rows * layers[j].cols
            \/ /\ layers[i].rows * layers[i].cols = layers[j].rows * layers[j].cols
               /\ layers[i].id < layers[j].id

----------------------------------------------------------------------------
(* Monitors that come and go: Detect on desktops whose monitor list grows, *)
(* shrinks or is empty, with Add Layer, the user's picks, Sort and Sort    *)
(* Layer in between                                                        *)

MaxMonLayers == 1

\* what get_monitors() returns here, the empty list included
ChangingMonitorLists == {<<>>, <<Mon1>>, <<Mon1, Mon2>>, <<Mon3, Mon2>>}

MonDetect ==
    \E mons \in ChangingMonitorLists : \E wins \in WindowLists :
        detect(mons, wins)

MonAddLayer ==
    /\ layer_counter < MaxMonLayers
    /\ add_layer

NextMon ==
    \/ MonDetect
    \/ MonAddLayer
    \/ Pick
    \/ Sort
    \/ ApplyLayer

SpecMon == Init /\ [][NextMon]_vars

\* the handler that ran last got past its preconditions and looked up the
\* selected monitor
ReadMonitor ==
    /\ op.name \in {"sort", "_apply_layer"}
    /\ op.ret \in {"done", "nothing_to_do", "no_windows", "IndexError"}

\* the combobox the handler read the selection from
ReadCombobox ==
    IF op.name = "sort" THEN monitor_cbx ELSE AppliedLayer.monitor_dropdown

\* C13: whenever sort() or _apply_layer() looks up the selected monitor, the
\* selected index is a valid index of the current monitor list, and the
\* monitor used is the one of the most recent Detect that the combobox shows
\* as selected.
C13_MonitorIndexValid ==
    ReadMonitor =>
        /\ op.ret # "IndexError"
        /\ 0 <= op.mon_idx
        /\ op.mon_idx < Len(monitors)
        /\ monitor_cbx.values = MonitorLabels(monitors)
        /\ ReadCombobox.text = MonitorLabels(monitors)[op.mon_idx + 1]
        /\ Tiled => \A k \in DOMAIN op.cells :
                        /\ UsedMonitor.x <= op.cells[k].x
                        /\ op.cells[k].x < UsedMonitor.x + UsedMonitor.width

C13_Witness ==
    /\ op.name = "_apply_layer" /\ op.ret = "done"
    /\ monitors = <<Mon3, Mon2>>
    /\ op.mon_idx = 1
    /\ current(monitor_cbx) = 0
    /\ op.cells[1].x = Mon2.x

====
